---- MODULE Spec2Model ----
(***************************************************************************)
(* TAMS anomaly scoring engine (src/predictor.py): the TAMSPredictor       *)
(* constructor, the feature encoder, the rule-based fallback scorer and    *)
(* the single and batch scoring entry points, as a state machine.          *)
(*                                                                         *)
(* Python strings are TLA+ strings (Len, SubSeq and \o act on them).       *)
(* A dict value is PyStr(s) or PyNone.  A raw model output is a number in  *)
(* quarter units (Num(10) is 2.5) or NaN.                                  *)
(***************************************************************************)
EXTENDS Integers, Sequences, FiniteSets, TLC

VARIABLES pc, file, hashseed, model, model_loaded, op, arg, result

vars == <<pc, file, hashseed, model, model_loaded, op, arg, result>>

----------------------------------------------------------------------------
(* Bounds                                                                  *)

\* Longest record list handed to predict_batch.
MaxBatch == 2

----------------------------------------------------------------------------
(* Python values                                                           *)

PyNone == [kind |-> "none", s |-> ""]

PyStr(s) == [kind |-> "str", s |-> s]

\* str(x) for a dict value x
str(x) == IF x.kind = "none" THEN "None" ELSE x.s

\* dict.get(key, default)
get(d, key, default) == IF key \in DOMAIN d THEN d[key] ELSE default

Upper == "ABCDEFGHIJKLMNOPQRSTUVWXYZ"

Alphabet == "abcdefghijklmnopqrstuvwxyz -ABCDEFGHIJKLMNOPQRSTUVWXYZ"

\* position of a one-character string in a string, 0 when absent
IndexIn(c, t) ==
    IF \E i \in 1..Len(t) : SubSeq(t, i, i) = c
    THEN CHOOSE i \in 1..Len(t) : SubSeq(t, i, i) = c
    ELSE 0

\* the lower-case letter of every upper-case letter
LowerTable ==
    [c \in {SubSeq(Upper, i, i) : i \in 1..Len(Upper)} |->
        SubSeq(Alphabet, IndexIn(c, Upper), IndexIn(c, Upper))]

LowerChar(c) == IF c \in DOMAIN LowerTable THEN LowerTable[c] ELSE c

RECURSIVE lower(_)
\* str.lower()
lower(s) ==
    IF Len(s) = 0 THEN ""
    ELSE IF Len(s) = 1 THEN LowerChar(s)
    ELSE lower(SubSeq(s, 1, Len(s) \div 2))
         \o lower(SubSeq(s, Len(s) \div 2 + 1, Len(s)))

\* the Python test `k in s` on two strings
Contains(s, k) ==
    \E i \in 1..(Len(s) - Len(k) + 1) : SubSeq(s, i, i + Len(k) - 1) = k

\* any(keyword in s for keyword in keywords)
AnyKeyword(keywords, s) == \E k \in keywords : Contains(s, k)

Min(a, b) == IF a < b THEN a ELSE b

Max(a, b) == IF a > b THEN a ELSE b

----------------------------------------------------------------------------
(* Score tuples                                                            *)

ScoreTuple(f, d, p, c) ==
    [ai_fiabilite_integrite_score |-> f,
     ai_disponibilite_score |-> d,
     ai_process_safety_score |-> p,
     ai_criticality_level |-> c]

----------------------------------------------------------------------------
(* Rule-based fallback scorer                                              *)

critical_keywords ==
    {"failure", "broken", "leak", "fire", "explosion", "pressure", "overheat"}

medium_keywords == {"wear", "drift", "irregularities", "drop", "issue"}

low_keywords == {"calibration", "maintenance", "check"}

\* the tiers tested in the order low, medium, critical
TierScores_low_first(description) ==
    IF AnyKeyword(low_keywords, description) THEN <<2, 2, 2>>
    ELSE IF AnyKeyword(medium_keywords, description) THEN <<3, 3, 3>>
    ELSE IF AnyKeyword(critical_keywords, description) THEN <<4, 4, 5>>
    ELSE <<3, 3, 3>>

\* the three scores after the keyword tiers
TierScores(description) ==
    IF AnyKeyword(critical_keywords, description) THEN <<4, 4, 5>>
    ELSE IF AnyKeyword(medium_keywords, description) THEN <<3, 3, 3>>
    ELSE IF AnyKeyword(low_keywords, description) THEN <<2, 2, 2>>
    ELSE <<3, 3, 3>>

\* the two system tests as independent ifs instead of if/elif
SystemAdjust_both(t, system) ==
    LET p == IF Contains(system, "electrical") THEN Min(5, t[3] + 1) ELSE t[3]
        d == IF Contains(system, "hydraulic") \/ Contains(system, "pneumatic")
             THEN Min(5, t[2] + 1) ELSE t[2]
    IN <<t[1], d, p>>

\* the adjustment without its cap at 5
SystemAdjust_no_cap(t, system) ==
    IF Contains(system, "electrical")
    THEN <<t[1], t[2], t[3] + 1>>
    ELSE IF Contains(system, "hydraulic") \/ Contains(system, "pneumatic")
    THEN <<t[1], t[2] + 1, t[3]>>
    ELSE t

\* the three scores after the system-name adjustment
SystemAdjust(t, system) ==
    IF Contains(system, "electrical")
    THEN <<t[1], t[2], Min(5, t[3] + 1)>>
    ELSE IF Contains(system, "hydraulic") \/ Contains(system, "pneumatic")
    THEN <<t[1], Min(5, t[2] + 1), t[3]>>
    ELSE t

\* the scorer adding one to reliability for one equipment number
_fallback_prediction_by_equipment(anomaly_data) ==
    LET description == lower(str(get(anomaly_data, "description", PyStr(""))))
        system == lower(str(get(anomaly_data, "systeme", PyStr(""))))
        t == SystemAdjust(TierScores(description), system)
        r == IF get(anomaly_data, "num_equipement", PyStr("")) = PyStr("EQ002")
             THEN Min(5, t[1] + 1) ELSE t[1]
    IN ScoreTuple(r, t[2], t[3], r + t[2] + t[3])

\* the scorer matching the keywords against the text as it was written
_fallback_prediction_no_lower(anomaly_data) ==
    LET description == str(get(anomaly_data, "description", PyStr("")))
        system == str(get(anomaly_data, "systeme", PyStr("")))
        t == SystemAdjust(TierScores(description), system)
    IN ScoreTuple(t[1], t[2], t[3], t[1] + t[2] + t[3])

_fallback_prediction(anomaly_data) ==
    LET description == lower(str(get(anomaly_data, "description", PyStr(""))))
        system == lower(str(get(anomaly_data, "systeme", PyStr(""))))
        t == SystemAdjust(TierScores(description), system)
    IN ScoreTuple(t[1], t[2], t[3], t[1] + t[2] + t[3])

----------------------------------------------------------------------------
(* Feature encoder                                                         *)

vocab_size == 100

CategoryBuckets == 1000

TokenBuckets == 100

HashSpace == 65536

\* a code point for every character of the alphabet
OrdTable ==
    [c \in {SubSeq(Alphabet, i, i) : i \in 1..Len(Alphabet)} |->
        IndexIn(c, Alphabet) + 31]

\* code point of a one-character string
Ord(c) == OrdTable[c]

RECURSIVE HashFrom(_, _)
HashFrom(h, s) ==
    IF Len(s) = 0 THEN h
    ELSE HashFrom((h * 33 + Ord(SubSeq(s, 1, 1))) % HashSpace,
                  SubSeq(s, 2, Len(s)))

\* the salts a process may draw for its string hash
HashSeeds == {0, 1}

\* hash(s) of a str in a process whose hash salt is seed; hash("") is 0
hash(seed, s) == IF Len(s) = 0 THEN 0 ELSE HashFrom(5381 + seed, s)

\* the words of a piece of text, and whether a word touches its left end
\* and its right end
Piece(words, left, right) == [words |-> words, left |-> left, right |-> right]

\* two adjacent pieces put together: a word cut by the seam is one word
Joined(a, b) ==
    IF a.right /\ b.left
    THEN Piece(SubSeq(a.words, 1, Len(a.words) - 1)
               \o <<a.words[Len(a.words)] \o b.words[1]>>
               \o SubSeq(b.words, 2, Len(b.words)),
               a.left, b.right)
    ELSE Piece(a.words \o b.words, a.left, b.right)

RECURSIVE SplitPiece(_)
\* the words of a non-empty text, found by halving it
SplitPiece(s) ==
    IF Len(s) = 1
    THEN IF s = " " THEN Piece(<<>>, FALSE, FALSE) ELSE Piece(<<s>>, TRUE, TRUE)
    ELSE Joined(SplitPiece(SubSeq(s, 1, Len(s) \div 2)),
                SplitPiece(SubSeq(s, Len(s) \div 2 + 1, Len(s))))

\* str.split(): the words between runs of whitespace
split(s) == IF Len(s) = 0 THEN <<>> ELSE SplitPiece(s).words

\* the columns of pd.DataFrame(data): every key of every record
Columns(data) == UNION {DOMAIN data[i] : i \in 1..Len(data)}

\* a cell of pd.DataFrame(data).fillna("unknown")
Cell(d, col) ==
    IF col \in DOMAIN d /\ d[col].kind # "none" THEN d[col] ELSE PyStr("unknown")

\* the text slots filled from the last vocab_size words instead of the first
TextFeatures_last_words(seed, desc) ==
    LET all == split(lower(desc))
        words == SubSeq(all, Max(1, Len(all) - vocab_size + 1), Len(all))
    IN [j \in 1..Len(words) |-> hash(seed, words[j]) % TokenBuckets]
       \o [j \in 1..(vocab_size - Len(words)) |-> 0]

\* text_features[i, :] of a description: the hashed words, then zeros
TextFeatures(seed, desc) ==
    LET all == split(lower(desc))
        words == SubSeq(all, 1, Min(Len(all), vocab_size))
    IN [j \in 1..Len(words) |-> hash(seed, words[j]) % TokenBuckets]
       \o [j \in 1..(vocab_size - Len(words)) |-> 0]

\* X[i, :] for record d of a frame with the given columns
FeatureRow(seed, cols, d) ==
    LET text == IF "description" \in cols
                THEN TextFeatures(seed, str(Cell(d, "description")))
                ELSE [j \in 1..vocab_size |-> 0]
    IN IF "systeme" \in cols
       THEN <<hash(seed, str(Cell(d, "systeme"))) % CategoryBuckets>> \o text
       ELSE text

\* data is the list of records (a single dict is wrapped in a list)
_prepare_features(seed, data) ==
    LET cols == Columns(data)
    IN [ncols |-> IF "systeme" \in cols THEN vocab_size + 1 ELSE vocab_size,
        rows |-> [i \in 1..Len(data) |-> FeatureRow(seed, cols, data[i])]]

----------------------------------------------------------------------------
(* The model artifact: what joblib.load returns and what its predict does  *)

NaN == [kind |-> "nan", quarters |-> 0]

\* the float q/4
Num(q) == [kind |-> "num", quarters |-> q]

\* one entry of the array predict returns: a row of values, or a bare
\* scalar (a one-dimensional output)
Row(vals) == [kind |-> "row", vals |-> vals]

Scalar(v) == [kind |-> "scalar", vals |-> <<v>>]

\* predict raises on a feature row of this class
RaiseRow == [kind |-> "raise", vals |-> <<>>]

OutRows ==
    {Row(<<Num(12), Num(16), Num(8)>>),
     Row(<<Num(10), Num(22), Num(-6), Num(60)>>),
     Row(<<Num(6), Num(19), Num(5)>>),
     Row(<<Num(14), NaN, Num(12)>>),
     Row(<<Num(12), Num(12)>>),
     Scalar(Num(12)),
     RaiseRow}

NumRowClasses == 2

\* the class of a feature row: predict is a function of the row's class
RowClass(row) == ((row[1] + row[2]) % NumRowClasses) + 1

PyNoneModel == [kind |-> "none"]

\* an artifact: the feature width it was fitted on, the rows it returns
\* beyond (or short of) the rows it is given, its output per row class
Artifacts ==
    [kind : {"artifact"},
     n_features_in : {vocab_size, vocab_size + 1},
     extra_rows : {-1, 0, 1},
     outs : [1..NumRowClasses -> OutRows]]

Raised == [raised |-> TRUE, value |-> <<>>]

Return(v) == [raised |-> FALSE, value |-> v]

\* model.predict(X): an exception, or the array of output rows
ModelPredict(m, X) ==
    LET n == Len(X.rows)
        out == [i \in 1..n |-> m.outs[RowClass(X.rows[i])]]
    IN IF X.ncols # m.n_features_in THEN Raised
       ELSE IF \E i \in 1..n : out[i] = RaiseRow THEN Raised
       ELSE IF m.extra_rows = -1 THEN Return(SubSeq(out, 1, Max(n - 1, 0)))
       ELSE IF m.extra_rows = 1 /\ m.outs[1] # RaiseRow
       THEN Return(out \o <<m.outs[1]>>)
       ELSE Return(out)

----------------------------------------------------------------------------
(* Post-processing of the raw model output                                 *)

\* int() alone: truncation toward zero instead of rounding
round_truncate(q) == IF q >= 0 THEN q \div 4 ELSE -((-q) \div 4)

\* round(q/4): to the nearest integer, a tie to the even one
round(q) ==
    LET floor == q \div 4
        rem == q % 4
    IN IF rem < 2 THEN floor
       ELSE IF rem > 2 THEN floor + 1
       ELSE IF floor % 2 = 0 THEN floor
       ELSE floor + 1

\* the clamp without its lower bound
Clamp_no_floor(n) == Min(5, n)

\* max(1, min(5, n))
Clamp(n) == Max(1, Min(5, n))

\* prediction[k] can be read and int(round(.)) can be taken of it
Readable(prediction, k) ==
    /\ prediction.kind = "row"
    /\ k <= Len(prediction.vals)
    /\ prediction.vals[k].kind = "num"

\* max(1, min(5, int(round(prediction[k]))))
Score(prediction, k) == Clamp(round(prediction.vals[k].quarters))

\* the score tuple made of one output row, or the exception raised on the way
ScoreRow(prediction) ==
    IF \A k \in 1..3 : Readable(prediction, k)
    THEN LET f == Score(prediction, 1)
             d == Score(prediction, 2)
             p == Score(prediction, 3)
         IN Return(ScoreTuple(f, d, p, f + d + p))
    ELSE Raised

----------------------------------------------------------------------------
(* TAMSPredictor                                                           *)

\* the artifact file at model_path: absent, unreadable, or a pickled object
Files ==
    {[state |-> "absent", content |-> PyNoneModel],
     [state |-> "corrupt", content |-> PyNoneModel],
     [state |-> "present", content |-> PyNoneModel]}
    \cup {[state |-> "present", content |-> m] : m \in Artifacts}

Predictor(m, loaded) == [model |-> m, model_loaded |-> loaded]

\* the try body of __init__: the attributes it leaves, or the exception
InitBody(f) ==
    IF f.state # "absent"
    THEN IF f.state = "corrupt" THEN Raised
         ELSE Return(Predictor(f.content, TRUE))
    ELSE Return(Predictor(PyNoneModel, FALSE))

\* the constructor without its try/except
TAMSPredictor_no_except(f) == InitBody(f)

\* __init__: the predictor built, or the exception that leaves the constructor
TAMSPredictor(f) ==
    LET body == InitBody(f)
    IN IF body.raised THEN Return(Predictor(PyNoneModel, FALSE)) ELSE body

\* the try body of predict_single
SingleBody(self, seed, anomaly_data) ==
    IF self.model_loaded /\ self.model # PyNoneModel
    THEN LET X == _prepare_features(seed, <<anomaly_data>>)
             prediction == ModelPredict(self.model, X)
         IN IF prediction.raised THEN Raised
            ELSE IF Len(prediction.value) = 0 THEN Raised
            ELSE ScoreRow(prediction.value[1])
    ELSE Return(_fallback_prediction(anomaly_data))

\* predict_single without its except clause
predict_single_no_except(self, seed, anomaly_data) ==
    SingleBody(self, seed, anomaly_data)

predict_single(self, seed, anomaly_data) ==
    LET body == SingleBody(self, seed, anomaly_data)
    IN IF body.raised
       THEN Return(_fallback_prediction(anomaly_data))
       ELSE body

\* the comprehension scoring the first record over and over
FallbackAll_first(anomalies_data) ==
    [i \in 1..Len(anomalies_data) |-> _fallback_prediction(anomalies_data[1])]

\* [self._fallback_prediction(anomaly) for anomaly in anomalies_data]
FallbackAll(anomalies_data) ==
    [i \in 1..Len(anomalies_data) |-> _fallback_prediction(anomalies_data[i])]

\* the try body of predict_batch
BatchBody(self, seed, anomalies_data) ==
    IF self.model_loaded /\ self.model # PyNoneModel
    THEN LET X == _prepare_features(seed, anomalies_data)
             predictions == ModelPredict(self.model, X)
         IN IF predictions.raised THEN Raised
            ELSE LET results == [i \in 1..Len(predictions.value) |->
                                    ScoreRow(predictions.value[i])]
                 IN IF \E i \in 1..Len(results) : results[i].raised
                    THEN Raised
                    ELSE Return([i \in 1..Len(results) |-> results[i].value])
    ELSE Return(FallbackAll(anomalies_data))

\* predict_batch without its except clause
predict_batch_no_except(self, seed, anomalies_data) ==
    BatchBody(self, seed, anomalies_data)

\* predict_batch falling back record by record, keeping the rows it scored
predict_batch_per_record(self, seed, anomalies_data) ==
    LET X == _prepare_features(seed, anomalies_data)
        predictions == ModelPredict(self.model, X)
    IN IF self.model_loaded /\ self.model # PyNoneModel /\ ~predictions.raised
          /\ Len(predictions.value) = Len(anomalies_data)
       THEN Return([i \in 1..Len(anomalies_data) |->
                       IF ScoreRow(predictions.value[i]).raised
                       THEN _fallback_prediction(anomalies_data[i])
                       ELSE ScoreRow(predictions.value[i]).value])
       ELSE Return(FallbackAll(anomalies_data))

predict_batch(self, seed, anomalies_data) ==
    LET body == BatchBody(self, seed, anomalies_data)
    IN IF body.raised
       THEN Return(FallbackAll(anomalies_data))
       ELSE body

----------------------------------------------------------------------------
(* The records the callers pass                                            *)

Anomaly(num, sys, desc) ==
    [num_equipement |-> PyStr(num), systeme |-> sys, description |-> PyStr(desc)]

Records ==
    {Anomaly("EQ001", PyStr("Hydraulic"), "Pressure drop detected in main valve"),
     Anomaly("EQ002", PyStr("Electrical"), "Routine calibration check"),
     [num_equipement |-> PyStr("EQ004"), description |-> PyStr("valve wear")]}

RECURSIVE ListsUpTo(_)
\* the lists of at most n records
ListsUpTo(n) ==
    IF n = 0 THEN {<<>>}
    ELSE LET shorter == ListsUpTo(n - 1)
         IN shorter \cup {Append(L, r) : L \in shorter, r \in Records}

Batches == ListsUpTo(MaxBatch)

----------------------------------------------------------------------------
(* The state machine                                                       *)

self == Predictor(model, model_loaded)

NoResult == [raised |-> FALSE, value |-> <<>>]

Init ==
    /\ pc = "start"
    /\ file \in Files
    /\ hashseed \in HashSeeds
    /\ model = PyNoneModel
    /\ model_loaded = FALSE
    /\ op = "none"
    /\ arg = <<>>
    /\ result = NoResult

\* predictor = TAMSPredictor()
Construct ==
    /\ pc = "start"
    /\ LET new == TAMSPredictor(file)
       IN IF new.raised
          THEN /\ pc' = "crashed"
               /\ UNCHANGED <<model, model_loaded>>
          ELSE /\ pc' = "ready"
               /\ model' = new.value.model
               /\ model_loaded' = new.value.model_loaded
    /\ UNCHANGED <<file, hashseed, op, arg, result>>

\* a caller invokes predictor.predict_single(r)
CallSingle ==
    /\ pc = "ready"
    /\ \E r \in Records : arg' = r
    /\ op' = "predict_single"
    /\ pc' = "called"
    /\ result' = NoResult
    /\ UNCHANGED <<file, hashseed, model, model_loaded>>

\* a caller invokes predictor.predict_batch(L)
CallBatch ==
    /\ pc = "ready"
    /\ \E L \in Batches : arg' = L
    /\ op' = "predict_batch"
    /\ pc' = "called"
    /\ result' = NoResult
    /\ UNCHANGED <<file, hashseed, model, model_loaded>>

\* predict_single giving up the model after an inference failure
PredictSingle_drops_model ==
    /\ pc = "called"
    /\ op = "predict_single"
    /\ result' = predict_single(self, hashseed, arg)
    /\ pc' = "returned"
    /\ model_loaded' = (model_loaded
                        /\ ~SingleBody(self, hashseed, arg).raised)
    /\ UNCHANGED <<file, hashseed, model, op, arg>>

\* predict_single runs to its return or to the exception that leaves it
PredictSingle ==
    /\ pc = "called"
    /\ op = "predict_single"
    /\ result' = predict_single(self, hashseed, arg)
    /\ pc' = "returned"
    /\ UNCHANGED <<file, hashseed, model, model_loaded, op, arg>>

\* predict_batch runs to its return or to the exception that leaves it
PredictBatch ==
    /\ pc = "called"
    /\ op = "predict_batch"
    /\ result' = predict_batch(self, hashseed, arg)
    /\ pc' = "returned"
    /\ UNCHANGED <<file, hashseed, model, model_loaded, op, arg>>

\* the caller takes the result; the predictor waits for the next call
TakeResult ==
    /\ pc = "returned"
    /\ pc' = "ready"
    /\ op' = "none"
    /\ arg' = <<>>
    /\ result' = NoResult
    /\ UNCHANGED <<file, hashseed, model, model_loaded>>

Next ==
    \/ Construct
    \/ CallSingle
    \/ CallBatch
    \/ PredictSingle
    \/ PredictBatch
    \/ TakeResult

Spec == Init /\ [][Next]_vars

----------------------------------------------------------------------------
(* Vocabulary of the properties                                            *)

ReturnedSingle == pc = "returned" /\ op = "predict_single"

ReturnedBatch == pc = "returned" /\ op = "predict_batch"

\* the predictor is on the model path
ModelPath == model_loaded /\ model # PyNoneModel

\* an output row from which three scores can be made
Scorable(prediction) ==
    /\ prediction.kind = "row"
    /\ Len(prediction.vals) >= 3
    /\ \A k \in 1..3 : prediction.vals[k] # NaN

\* what model.predict does on the features of the records of the call
RawOutcome(data) == ModelPredict(model, _prepare_features(hashseed, data))

\* inference on the single record of the call fails
SingleInferenceFails ==
    LET p == RawOutcome(<<arg>>)
    IN p.raised \/ Len(p.value) = 0 \/ ~Scorable(p.value[1])

\* inference on the batch of the call fails somewhere
BatchInferenceFails ==
    LET p == RawOutcome(arg)
    IN p.raised \/ \E i \in 1..Len(p.value) : ~Scorable(p.value[i])

ValidTuple(t) ==
    /\ t.ai_fiabilite_integrite_score \in 1..5
    /\ t.ai_disponibilite_score \in 1..5
    /\ t.ai_process_safety_score \in 1..5
    /\ t.ai_criticality_level =
           t.ai_fiabilite_integrite_score + t.ai_disponibilite_score
           + t.ai_process_safety_score
    /\ t.ai_criticality_level \in 3..15

----------------------------------------------------------------------------
(* C1: whatever the record and the state of the predictor (model loaded or *)
(* not, whatever the model's predict returns or raises), predict_single    *)
(* returns a tuple of three integer scores in [1,5] and a criticality      *)
(* that is their sum, hence in [3,15].                                     *)
C1_SingleTupleValid ==
    ReturnedSingle => ~result.raised /\ ValidTuple(result.value)

\* a model output below 1 and one above 5 were clamped into the tuple
C1_Witness ==
    /\ ReturnedSingle
    /\ ModelPath
    /\ ~SingleInferenceFails
    /\ result.value.ai_disponibilite_score = 5
    /\ result.value.ai_process_safety_score = 1

(* C2: when a model is loaded and inference fails in predict_single (the   *)
(* model raises, returns the wrong shape, or returns a value that cannot   *)
(* be rounded), no exception reaches the caller and the result is          *)
(* _fallback_prediction of the record.                                     *)
C2_SingleFailureFallsBack ==
    ReturnedSingle /\ ModelPath /\ SingleInferenceFails
        => result = Return(_fallback_prediction(arg))

\* the model returned a row whose second value is NaN
C2_Witness ==
    /\ ReturnedSingle
    /\ ModelPath
    /\ ~RawOutcome(<<arg>>).raised
    /\ Len(RawOutcome(<<arg>>).value) > 0
    /\ RawOutcome(<<arg>>).value[1].kind = "row"
    /\ Len(RawOutcome(<<arg>>).value[1].vals) >= 3
    /\ RawOutcome(<<arg>>).value[1].vals[2] = NaN
    /\ ~result.raised

(* C3: if the artifact is absent or loading it raises, the constructor     *)
(* still completes, leaves model_loaded false, and every later             *)
(* predict_single and predict_batch returns the rule-based fallback result *)
(* of each record instead of raising.                                      *)
C3_LoadFailureServesFallback ==
    pc # "start" /\ file.state \in {"absent", "corrupt"}
        => /\ pc # "crashed"
           /\ ~model_loaded
           /\ ReturnedSingle => result = Return(_fallback_prediction(arg))
           /\ ReturnedBatch =>
                  result = Return([i \in 1..Len(arg) |->
                                      _fallback_prediction(arg[i])])

\* the artifact could not be read and a batch of two records was scored
C3_Witness ==
    /\ file.state = "corrupt"
    /\ ReturnedBatch
    /\ Len(arg) = 2
    /\ Len(result.value) = 2

(* C4: on the fallback path, for every non-empty list L, predict_batch(L)  *)
(* has the length of L and its entry i equals predict_single(L[i]).        *)
C4_FallbackBatchSingleParity ==
    ReturnedBatch /\ ~ModelPath /\ Len(arg) > 0
        => /\ ~result.raised
           /\ Len(result.value) = Len(arg)
           /\ \A i \in 1..Len(arg) :
                  Return(result.value[i]) = predict_single(self, hashseed, arg[i])

\* two different records were scored in one batch on the fallback path
C4_Witness ==
    /\ ReturnedBatch
    /\ ~ModelPath
    /\ Len(arg) = 2
    /\ arg[1] # arg[2]
    /\ Len(result.value) = 2
    /\ result.value[1] # result.value[2]

(* C5: on every path, the model path included, a record scored alone by   *)
(* predict_single gets the same result as its entry in predict_batch of    *)
(* any list containing it: the other records of the batch never change a   *)
(* record's result.                                                        *)
C5_SingleEqualsBatchEntry ==
    ReturnedBatch /\ Len(result.value) = Len(arg)
        => \A i \in 1..Len(arg) :
               Return(result.value[i]) = predict_single(self, hashseed, arg[i])

(* C6: for every list L and on every path, predict_batch(L) has exactly    *)
(* len(L) entries, entry i being the score of L[i], whatever number of     *)
(* rows the model's predict returns.                                       *)
C6_BatchLengthIsInputLength ==
    ReturnedBatch => ~result.raised /\ Len(result.value) = Len(arg)

(* C7: when a model is loaded and inference fails anywhere in              *)
(* predict_batch(L) (feature preparation, model.predict, post-processing   *)
(* of any one row), the partial results are dropped and every record of L  *)
(* is scored by _fallback_prediction; no exception reaches the caller.     *)
C7_BatchFailureFallsBackWhole ==
    ReturnedBatch /\ ModelPath /\ BatchInferenceFails
        => result = Return([i \in 1..Len(arg) |-> _fallback_prediction(arg[i])])

\* the first row was post-processed, the second could not be, and the
\* first record's model scores were dropped for its fallback scores
C7_Witness ==
    /\ ReturnedBatch
    /\ ModelPath
    /\ Len(arg) = 2
    /\ ~RawOutcome(arg).raised
    /\ Len(RawOutcome(arg).value) = 2
    /\ Scorable(RawOutcome(arg).value[1])
    /\ ~Scorable(RawOutcome(arg).value[2])
    /\ ScoreRow(RawOutcome(arg).value[1]).value # _fallback_prediction(arg[1])
    /\ result.value[1] = _fallback_prediction(arg[1])

\* the path the constructor chose for the artifact file it found
PathOfFile == file.state = "present" /\ file.content # PyNoneModel

(* C8: the scoring path is decided once, in the constructor: after         *)
(* __init__ returns no predict_single or predict_batch call, successful or *)
(* failing, changes model or model_loaded, so the predictor stays on the   *)
(* path it started on.                                                     *)
C8_PathDecidedOnce ==
    /\ [](pc # "start" => (ModelPath <=> PathOfFile))
    /\ [][pc # "start" => model' = model /\ model_loaded' = model_loaded]_vars

\* a call whose inference failed has returned and the model is still loaded
C8_Witness ==
    /\ ReturnedSingle
    /\ ModelPath
    /\ SingleInferenceFails
    /\ result = Return(_fallback_prediction(arg))

NearestInteger(q, n) == 4 * n - q \in -2..2

\* s is n clamped into [1,5]
ClampedInto(n, s) ==
    \/ n < 1 /\ s = 1
    \/ n > 5 /\ s = 5
    \/ n \in 1..5 /\ s = n

\* t is made of the first three values of an output row: each rounded to a
\* nearest integer, then clamped; the criticality is the sum of the three
PostProcessed(prediction, t) ==
    LET scores == <<t.ai_fiabilite_integrite_score,
                    t.ai_disponibilite_score,
                    t.ai_process_safety_score>>
    IN /\ \A k \in 1..3 :
              \E n \in -20..20 :
                  /\ NearestInteger(prediction.vals[k].quarters, n)
                  /\ ClampedInto(n, scores[k])
       /\ t.ai_criticality_level = scores[1] + scores[2] + scores[3]

(* C10: on the model path each of the three scores is the corresponding    *)
(* one of the first three raw outputs rounded to the nearest integer and   *)
(* then clamped into [1,5], and the criticality is the sum of the three    *)
(* clamped integers, never a fourth value of the model; predict_single and *)
(* predict_batch post-process alike.                                       *)
C10_ModelPathPostProcessing ==
    /\ ReturnedSingle /\ ModelPath /\ ~SingleInferenceFails
           => PostProcessed(RawOutcome(<<arg>>).value[1], result.value)
    /\ ReturnedBatch /\ ModelPath /\ ~BatchInferenceFails
           => /\ Len(result.value) = Len(RawOutcome(arg).value)
              /\ \A i \in 1..Len(result.value) :
                     PostProcessed(RawOutcome(arg).value[i], result.value[i])

\* a batch whose model rows carry a fourth value (15) and a value that is
\* not a tie (4.75) was post-processed
C10_Witness ==
    /\ ReturnedBatch
    /\ ModelPath
    /\ ~BatchInferenceFails
    /\ Len(arg) = 2
    /\ Len(RawOutcome(arg).value) = 2
    /\ Len(RawOutcome(arg).value[1].vals) = 4
    /\ RawOutcome(arg).value[2].vals[2] = Num(19)
    /\ result.value[1].ai_criticality_level = 8
    /\ result.value[2].ai_disponibilite_score = 5

----------------------------------------------------------------------------
(* The fallback scorer called on its own                                   *)

\* a key the record does not carry
Absent == [kind |-> "absent", s |-> ""]

\* the dict of the keys that are given
MakeRecord(num, sys, desc) ==
    LET given == [num_equipement |-> num, systeme |-> sys, description |-> desc]
    IN [k \in {key \in DOMAIN given : given[key] # Absent} |-> given[k]]

FallbackDescriptions ==
    {PyStr("Pressure drop detected in main valve"),
     PyStr("Routine calibration check"),
     PyStr("Motor overheating issue"),
     PyStr("Oil LEAK during maintenance"),
     PyStr("broken seal wear check"),
     PyStr("fire"),
     PyStr("bearing wear"),
     PyStr("sensor drift after calibration"),
     PyStr("unusual noise"),
     PyStr(""),
     PyNone,
     Absent}

FallbackSystems ==
    {PyStr("Hydraulic"),
     PyStr("Electrical"),
     PyStr("Pneumatic"),
     PyStr("Mechanical"),
     PyStr("Electrical-Hydraulic"),
     PyStr("HYDRAULIC pump"),
     PyStr(""),
     PyNone,
     Absent}

FallbackRecords ==
    {MakeRecord(num, sys, desc) :
        num \in {PyStr("EQ001"), PyStr("EQ002")},
        sys \in FallbackSystems,
        desc \in FallbackDescriptions}

FallbackInit ==
    /\ pc = "fb_start"
    /\ file = [state |-> "absent", content |-> PyNoneModel]
    /\ hashseed = 0
    /\ model = PyNoneModel
    /\ model_loaded = FALSE
    /\ op = "none"
    /\ arg = <<>>
    /\ result = NoResult

\* self._fallback_prediction(anomaly_data) is called with a record
FallbackCall ==
    /\ pc = "fb_start"
    /\ \E r \in FallbackRecords : arg' = r
    /\ op' = "_fallback_prediction"
    /\ pc' = "fb_called"
    /\ UNCHANGED <<file, hashseed, model, model_loaded, result>>

\* _fallback_prediction runs to its return
FallbackScore ==
    /\ pc = "fb_called"
    /\ result' = Return(_fallback_prediction(arg))
    /\ pc' = "fb_returned"
    /\ UNCHANGED <<file, hashseed, model, model_loaded, op, arg>>

FallbackNext ==
    \/ FallbackCall
    \/ FallbackScore

SpecFallback == FallbackInit /\ [][FallbackNext]_vars

FallbackReturned == pc = "fb_returned"

\* the lowercased text of a field of the record scored, "" when absent
FieldText(key) == lower(str(get(arg, key, PyStr(""))))

HasCritical == \E k \in critical_keywords : Contains(FieldText("description"), k)

HasMedium == \E k \in medium_keywords : Contains(FieldText("description"), k)

HasLow == \E k \in low_keywords : Contains(FieldText("description"), k)

\* a system name that earns no adjustment
NeutralSystem ==
    get(arg, "systeme", Absent) \in {PyStr("Mechanical"), PyStr(""), Absent, PyNone}

\* the three scores of the result
Scores ==
    <<result.value.ai_fiabilite_integrite_score,
      result.value.ai_disponibilite_score,
      result.value.ai_process_safety_score>>

(* C11: the keyword tiers are tested on the lowercased description in the  *)
(* order critical, medium, low, and the first tier that matches alone      *)
(* decides the base scores: (4,4,5) with a critical keyword whatever else  *)
(* the description holds, (3,3,3) with a medium and no critical keyword,   *)
(* (2,2,2) with low keywords only, (3,3,3) with no keyword.  (The base     *)
(* scores are read off a record whose system name earns no adjustment;     *)
(* the reliability score is never adjusted.)                               *)
C11_FirstTierDecides ==
    FallbackReturned =>
        LET base == IF HasCritical THEN <<4, 4, 5>>
                    ELSE IF HasMedium THEN <<3, 3, 3>>
                    ELSE IF HasLow THEN <<2, 2, 2>>
                    ELSE <<3, 3, 3>>
        IN /\ Scores[1] = base[1]
           /\ NeutralSystem => Scores = base

\* a description holding a critical, a medium and a low keyword was scored
C11_Witness ==
    /\ FallbackReturned
    /\ get(arg, "description", Absent) = PyStr("broken seal wear check")
    /\ HasCritical /\ HasMedium /\ HasLow
    /\ NeutralSystem
    /\ Scores = <<4, 4, 5>>

\* the scores the keyword tiers give the description of the record scored
BaseScores ==
    IF HasCritical THEN <<4, 4, 5>>
    ELSE IF HasMedium THEN <<3, 3, 3>>
    ELSE IF HasLow THEN <<2, 2, 2>>
    ELSE <<3, 3, 3>>

IsElectrical == Contains(FieldText("systeme"), "electrical")

IsFluidPower ==
    \/ Contains(FieldText("systeme"), "hydraulic")
    \/ Contains(FieldText("systeme"), "pneumatic")

(* C12: the system-name adjustment comes after the tier decision and       *)
(* changes at most one score by at most +1, capped at 5: a lowercased      *)
(* system name containing "electrical" raises process-safety only;         *)
(* otherwise one containing "hydraulic" or "pneumatic" raises availability *)
(* only; a name containing both "electrical" and "hydraulic" raises        *)
(* process-safety only; reliability is never changed.                      *)
C12_SystemAdjustment ==
    FallbackReturned =>
        /\ Scores[1] = BaseScores[1]
        /\ Cardinality({k \in 1..3 : Scores[k] # BaseScores[k]}) <= 1
        /\ \A k \in 1..3 : Scores[k] - BaseScores[k] \in {0, 1} /\ Scores[k] <= 5
        /\ IsElectrical =>
               /\ Scores[3] = Min(5, BaseScores[3] + 1)
               /\ Scores[2] = BaseScores[2]
        /\ ~IsElectrical /\ IsFluidPower =>
               /\ Scores[2] = Min(5, BaseScores[2] + 1)
               /\ Scores[3] = BaseScores[3]
        /\ ~IsElectrical /\ ~IsFluidPower => Scores = BaseScores

\* a system name containing both "electrical" and "hydraulic" raised
\* process-safety and left availability alone
C12_Witness ==
    /\ FallbackReturned
    /\ IsElectrical
    /\ IsFluidPower
    /\ BaseScores = <<3, 3, 3>>
    /\ Scores = <<3, 3, 4>>

\* the record scored carries this description and this system name
Scored(description, system) ==
    /\ FallbackReturned
    /\ get(arg, "description", Absent) = PyStr(description)
    /\ get(arg, "systeme", Absent) = PyStr(system)

(* C13: on the fallback path the worked examples hold: ("Pressure drop     *)
(* detected in main valve", "Hydraulic") scores (4,5,5) with criticality   *)
(* 14; ("Routine calibration check", "Mechanical") scores (2,2,2) with     *)
(* criticality 6; ("Motor overheating issue", "Electrical") scores (4,4,5) *)
(* with criticality 13.                                                    *)
C13_WorkedExamples ==
    /\ Scored("Pressure drop detected in main valve", "Hydraulic") =>
           result = Return(ScoreTuple(4, 5, 5, 14))
    /\ Scored("Routine calibration check", "Mechanical") =>
           result = Return(ScoreTuple(2, 2, 2, 6))
    /\ Scored("Motor overheating issue", "Electrical") =>
           result = Return(ScoreTuple(4, 4, 5, 13))

\* the first worked example has been scored
C13_Witness ==
    /\ Scored("Pressure drop detected in main valve", "Hydraulic")
    /\ result.value.ai_criticality_level = 14

(* C15: the fallback scorer is total: for every description and system     *)
(* name, the empty string included, and for records in which either key is *)
(* absent, it returns a valid tuple (each score in 1..5, criticality their *)
(* sum) and never raises; with both fields empty or absent the result is   *)
(* (3,3,3) with criticality 9.                                             *)
C15_FallbackTotal ==
    FallbackReturned =>
        /\ ~result.raised
        /\ ValidTuple(result.value)
        /\ /\ get(arg, "description", Absent) \in {PyStr(""), Absent}
           /\ get(arg, "systeme", Absent) \in {PyStr(""), Absent}
           => result.value = ScoreTuple(3, 3, 3, 9)

\* a record with neither key has been scored
C15_Witness ==
    /\ FallbackReturned
    /\ "description" \notin DOMAIN arg
    /\ "systeme" \notin DOMAIN arg
    /\ result.value = ScoreTuple(3, 3, 3, 9)

-----------------------------------------------------------------------------
(* The fallback scorer called repeatedly, on predictors built from         *)
(* different artifact files                                                *)

MaxCalls == 2

\* records that share or differ in description and system name, and differ
\* in the fields the scorer has no use for
PureRecords ==
    {[k \in {key \in DOMAIN rec : rec[key] # Absent} |-> rec[k]] :
        rec \in [num_equipement : {PyStr("EQ001"), PyStr("EQ002")},
                 date_detection : {PyStr("2025-01-15")},
                 section_proprietaire : {PyStr("Maintenance")},
                 systeme : {PyStr("Hydraulic"), PyStr("Electrical")},
                 description : {PyStr("Oil LEAK during maintenance"), Absent}]}
    \cup
    {[k \in {key \in DOMAIN rec : rec[key] # Absent} |-> rec[k]] :
        rec \in [num_equipement : {PyStr("EQ001")},
                 systeme : {PyStr("Hydraulic"), PyStr("Electrical")},
                 description : {PyStr("Oil LEAK during maintenance"), Absent}]}

\* an artifact file for each state a constructed predictor can be in
PureFiles ==
    {[state |-> "absent", content |-> PyNoneModel],
     [state |-> "present", content |-> PyNoneModel],
     [state |-> "present",
      content |-> [kind |-> "artifact", n_features_in |-> vocab_size + 1,
                   extra_rows |-> 0,
                   outs |-> [c \in 1..NumRowClasses |-> RaiseRow]]]}

PureInit ==
    /\ pc = "pure_idle"
    /\ file \in PureFiles
    /\ hashseed = 0
    /\ model = TAMSPredictor(file).value.model
    /\ model_loaded = TAMSPredictor(file).value.model_loaded
    /\ op = "none"
    /\ arg = <<>>
    /\ result = <<>>

\* the process is started again over another artifact file
PureConstruct ==
    /\ pc = "pure_idle"
    /\ \E f \in PureFiles \ {file} :
        /\ file' = f
        /\ model' = TAMSPredictor(f).value.model
        /\ model_loaded' = TAMSPredictor(f).value.model_loaded
    /\ UNCHANGED <<pc, hashseed, op, arg, result>>

\* self._fallback_prediction(anomaly_data) is called
PureCall ==
    /\ pc = "pure_idle"
    /\ Len(arg) < MaxCalls
    /\ \E r \in PureRecords :
        arg' = Append(arg, [self |-> Predictor(model, model_loaded),
                            anomaly_data |-> r])
    /\ op' = "_fallback_prediction"
    /\ pc' = "pure_called"
    /\ UNCHANGED <<file, hashseed, model, model_loaded, result>>

\* the call returns
PureScore ==
    /\ pc = "pure_called"
    /\ result' = Append(result,
                     Return(_fallback_prediction(arg[Len(arg)].anomaly_data)))
    /\ pc' = "pure_idle"
    /\ UNCHANGED <<file, hashseed, model, model_loaded, op, arg>>

PureNext == PureConstruct \/ PureCall \/ PureScore

SpecPure == PureInit /\ [][PureNext]_vars

\* two calls made on records with the same description and system name
SameText(i, j) ==
    /\ get(arg[i].anomaly_data, "description", Absent)
           = get(arg[j].anomaly_data, "description", Absent)
    /\ get(arg[i].anomaly_data, "systeme", Absent)
           = get(arg[j].anomaly_data, "systeme", Absent)

(* C14: the fallback scorer is a pure function of the record's description *)
(* and system name only: any two calls, on the same record or on records   *)
(* agreeing on those two fields and differing in any other field or in the *)
(* predictor's state, return identical tuples, and a call modifies neither *)
(* the record nor the predictor.                                           *)
C14_FallbackPure ==
    /\ [](\A i, j \in 1..Len(result) : SameText(i, j) => result[i] = result[j])
    /\ [][pc = "pure_called" =>
            /\ model' = model
            /\ model_loaded' = model_loaded
            /\ \A i \in 1..Len(arg) : arg'[i] = arg[i]]_vars

\* two returned calls on records that agree on the two text fields and
\* differ in the other fields, made on predictors in different states
C14_Witness ==
    /\ Len(result) = 2
    /\ SameText(1, 2)
    /\ arg[1].anomaly_data # arg[2].anomaly_data
    /\ arg[1].self # arg[2].self
    /\ result[1] = result[2]

-----------------------------------------------------------------------------
(* Concurrent calls on the one shared predictor instance, each call taken  *)
(* a step at a time                                                        *)

NumTasks == 2

Tasks == 1..NumTasks

ConcRecords ==
    <<Anomaly("EQ001", PyStr("Hydraulic"), "oil leak"),
      Anomaly("EQ002", PyStr("Electrical"), "check")>>

\* the calls a task can make
ConcCalls ==
    {[name |-> "predict_single", data |-> ConcRecords[1]],
     [name |-> "predict_single", data |-> ConcRecords[2]],
     [name |-> "predict_batch", data |-> ConcRecords],
     [name |-> "predict_batch", data |-> <<>>]}

ConcArtifact(out1, out2) ==
    [kind |-> "artifact", n_features_in |-> vocab_size + 1, extra_rows |-> 0,
     outs |-> [c \in 1..NumRowClasses |-> IF c = 1 THEN out1 ELSE out2]]

ConcFiles ==
    {[state |-> "absent", content |-> PyNoneModel]}
    \cup
    {[state |-> "present", content |-> ConcArtifact(o[1], o[2])] :
        o \in {<<Row(<<Num(12), Num(16), Num(8)>>), Row(<<Num(6), Num(19), Num(5)>>)>>,
               <<RaiseRow, Row(<<Num(6), Num(19), Num(5)>>)>>,
               <<Row(<<Num(12), Num(16), Num(8)>>), RaiseRow>>,
               <<Scalar(Num(12)), Row(<<Num(6), Num(19), Num(5)>>)>>}}

\* the locals of a call: the method and what it has computed so far
Frame(name, X, prediction) == [name |-> name, X |-> X, prediction |-> prediction]

NoFrame == Frame("none", <<>>, <<>>)

ConcInit ==
    /\ pc = [t \in Tasks |-> "idle"]
    /\ file \in ConcFiles
    /\ hashseed = 0
    /\ model = TAMSPredictor(file).value.model
    /\ model_loaded = TAMSPredictor(file).value.model_loaded
    /\ op = [t \in Tasks |-> NoFrame]
    /\ arg = [t \in Tasks |-> <<>>]
    /\ result = [t \in Tasks |-> NoResult]

\* a request-handling task enters predict_single or predict_batch
ConcCall(t) ==
    /\ pc[t] = "idle"
    /\ \E c \in ConcCalls :
        /\ op' = [op EXCEPT ![t] = Frame(c.name, <<>>, <<>>)]
        /\ arg' = [arg EXCEPT ![t] = c.data]
    /\ pc' = [pc EXCEPT ![t] = "test"]
    /\ UNCHANGED <<file, hashseed, model, model_loaded, result>>

\* if self.model_loaded and self.model is not None
ConcTest(t) ==
    /\ pc[t] = "test"
    /\ pc' = [pc EXCEPT ![t] = IF model_loaded /\ model # PyNoneModel
                               THEN "features" ELSE "else"]
    /\ UNCHANGED <<file, hashseed, model, model_loaded, op, arg, result>>

\* X = self._prepare_features(...)
ConcFeatures(t) ==
    /\ pc[t] = "features"
    /\ LET data == IF op[t].name = "predict_single" THEN <<arg[t]>> ELSE arg[t]
       IN op' = [op EXCEPT ![t].X = _prepare_features(hashseed, data)]
    /\ pc' = [pc EXCEPT ![t] = "infer"]
    /\ UNCHANGED <<file, hashseed, model, model_loaded, arg, result>>

\* prediction = self.model.predict(X), on the model the attribute holds now
ConcInfer(t) ==
    /\ pc[t] = "infer"
    /\ LET prediction == IF model = PyNoneModel THEN Raised
                         ELSE ModelPredict(model, op[t].X)
       IN IF prediction.raised
          THEN /\ pc' = [pc EXCEPT ![t] = "except"]
               /\ op' = op
          ELSE /\ pc' = [pc EXCEPT ![t] = "post"]
               /\ op' = [op EXCEPT ![t].prediction = prediction.value]
    /\ UNCHANGED <<file, hashseed, model, model_loaded, arg, result>>

\* the scores read from prediction[0], or the exception raised on the way
SinglePost(prediction) ==
    IF Len(prediction) = 0 THEN Raised ELSE ScoreRow(prediction[1])

\* the results list built in the loop, or the exception raised on the way
BatchPost(predictions) ==
    LET results == [i \in 1..Len(predictions) |-> ScoreRow(predictions[i])]
    IN IF \E i \in 1..Len(results) : results[i].raised
       THEN Raised
       ELSE Return([i \in 1..Len(results) |-> results[i].value])

\* rounding, clamping and the return of the model path
ConcPost(t) ==
    /\ pc[t] = "post"
    /\ LET out == IF op[t].name = "predict_single"
                  THEN SinglePost(op[t].prediction)
                  ELSE BatchPost(op[t].prediction)
       IN IF out.raised
          THEN /\ pc' = [pc EXCEPT ![t] = "except"]
               /\ result' = result
          ELSE /\ pc' = [pc EXCEPT ![t] = "returned"]
               /\ result' = [result EXCEPT ![t] = out]
    /\ UNCHANGED <<file, hashseed, model, model_loaded, op, arg>>

\* what either method returns from its else branch and from its handler
ConcFallbackResult(t) ==
    IF op[t].name = "predict_single"
    THEN Return(_fallback_prediction(arg[t]))
    ELSE Return(FallbackAll(arg[t]))

\* the else branch: no model to use
ConcElse(t) ==
    /\ pc[t] = "else"
    /\ result' = [result EXCEPT ![t] = ConcFallbackResult(t)]
    /\ pc' = [pc EXCEPT ![t] = "returned"]
    /\ UNCHANGED <<file, hashseed, model, model_loaded, op, arg>>

\* the handler, had it switched the predictor to the fallback for good
ConcExcept_disables_model(t) ==
    /\ pc[t] = "except"
    /\ result' = [result EXCEPT ![t] = ConcFallbackResult(t)]
    /\ pc' = [pc EXCEPT ![t] = "returned"]
    /\ model_loaded' = FALSE
    /\ UNCHANGED <<file, hashseed, model, op, arg>>

\* except Exception: print and return the fallback
ConcExcept(t) ==
    /\ pc[t] = "except"
    /\ result' = [result EXCEPT ![t] = ConcFallbackResult(t)]
    /\ pc' = [pc EXCEPT ![t] = "returned"]
    /\ UNCHANGED <<file, hashseed, model, model_loaded, op, arg>>

\* the task takes its result and is free for the next request
ConcTake(t) ==
    /\ pc[t] = "returned"
    /\ pc' = [pc EXCEPT ![t] = "idle"]
    /\ op' = [op EXCEPT ![t] = NoFrame]
    /\ arg' = [arg EXCEPT ![t] = <<>>]
    /\ result' = [result EXCEPT ![t] = NoResult]
    /\ UNCHANGED <<file, hashseed, model, model_loaded>>

ConcNext ==
    \E t \in Tasks :
        \/ ConcCall(t)
        \/ ConcTest(t)
        \/ ConcFeatures(t)
        \/ ConcInfer(t)
        \/ ConcPost(t)
        \/ ConcElse(t)
        \/ ConcExcept(t)
        \/ ConcTake(t)

SpecConcurrent == ConcInit /\ [][ConcNext]_vars

\* the predictor as the constructor left it
Constructed == TAMSPredictor(file).value

\* the result of task t's call when nothing else runs
Alone(t) ==
    IF op[t].name = "predict_single"
    THEN predict_single(Constructed, hashseed, arg[t])
    ELSE predict_batch(Constructed, hashseed, arg[t])

(* C16: any interleaving of concurrent predict_single and predict_batch    *)
(* calls on the shared predictor gives each call the result it gives when  *)
(* run alone: scoring reads model and model_loaded and writes no shared    *)
(* state, so no call observes or is affected by another.                   *)
C16_InterleavingsAgree ==
    /\ [](\A t \in Tasks : pc[t] = "returned" => result[t] = Alone(t))
    /\ [][model' = model /\ model_loaded' = model_loaded]_vars

\* one call has come back from its exception handler while another call,
\* started before it returned, comes back with the model's scores
C16_Witness ==
    \E t, u \in Tasks :
        /\ pc[t] = "returned"
        /\ pc[u] = "returned"
        /\ model_loaded
        /\ result[t] = ConcFallbackResult(t)
        /\ op[u].name = "predict_single"
        /\ result[u] # ConcFallbackResult(u)
        /\ result[u] = Alone(u)

-----------------------------------------------------------------------------
(* The feature encoder called on its own                                   *)

MaxFrame == 2

RECURSIVE Repeat(_, _)
\* s * n
Repeat(s, n) == IF n = 0 THEN "" ELSE s \o Repeat(s, n - 1)

\* a description of vocab_size words, to be followed by more
HundredWords == Repeat("A b ", vocab_size \div 2)

EncRecords ==
    {MakeRecord(PyStr("EQ001"), PyStr("Hydraulic"), PyStr("Oil LEAK")),
     MakeRecord(PyStr("EQ002"), PyStr("hydraulic"), PyStr("oil leak")),
     MakeRecord(PyStr("EQ003"), PyStr("Zeta unit"),
                PyStr(HundredWords \o "leak in valve")),
     MakeRecord(PyStr("EQ004"), PyStr("Zeta unit"),
                PyStr(HundredWords \o "fire")),
     MakeRecord(PyStr("EQ005"), Absent, PyStr("valve wear")),
     MakeRecord(PyStr("EQ006"), PyNone, PyNone),
     MakeRecord(PyStr("EQ007"), PyStr("Electrical"), Absent)}

RECURSIVE FramesUpTo(_)
\* the lists of at most n records
FramesUpTo(n) ==
    IF n = 0 THEN {<<>>}
    ELSE LET shorter == FramesUpTo(n - 1)
         IN shorter \cup {Append(L, r) : L \in shorter, r \in EncRecords}

EncInit ==
    /\ pc = "enc_start"
    /\ file = [state |-> "absent", content |-> PyNoneModel]
    /\ hashseed \in HashSeeds
    /\ model = PyNoneModel
    /\ model_loaded = FALSE
    /\ op = "none"
    /\ arg = <<>>
    /\ result = NoResult

\* self._prepare_features(data) is called
EncCall ==
    /\ pc = "enc_start"
    /\ \E L \in FramesUpTo(MaxFrame) : arg' = L
    /\ op' = "_prepare_features"
    /\ pc' = "enc_called"
    /\ UNCHANGED <<file, hashseed, model, model_loaded, result>>

\* the call returns X
EncPrepare ==
    /\ pc = "enc_called"
    /\ result' = Return(_prepare_features(hashseed, arg))
    /\ pc' = "enc_returned"
    /\ UNCHANGED <<file, hashseed, model, model_loaded, op, arg>>

EncNext == EncCall \/ EncPrepare

SpecEncoder == EncInit /\ [][EncNext]_vars

EncReturned == pc = "enc_returned"

\* the rows of the matrix returned
X == result.value.rows

\* the value of a field, the sentinel standing in for a missing or null one
OrSentinel(d, key) ==
    IF get(d, key, PyNone) = PyNone THEN "unknown" ELSE get(d, key, PyNone).s

\* the vector of a record whose missing values are replaced, not omitted
SentinelRow(d) ==
    <<hash(hashseed, OrSentinel(d, "systeme")) % CategoryBuckets>>
    \o TextFeatures(hashseed, OrSentinel(d, "description"))

(* C17: _prepare_features never fails and returns one row per record, of a *)
(* width that is the same for all records: 101 (the categorical slot, then *)
(* 100 text slots) whenever the system field is present, whichever other   *)
(* fields are missing or null; a missing or null system or description is  *)
(* replaced by the sentinel "unknown" before encoding rather than omitted; *)
(* an unseen system name encodes to a number in 0..999.                    *)
C17_SentinelNotOmitted ==
    EncReturned =>
        /\ ~result.raised
        /\ Len(X) = Len(arg)
        /\ \A i, j \in 1..Len(X) : Len(X[i]) = Len(X[j])
        /\ \A i \in 1..Len(X) :
            /\ "systeme" \in DOMAIN arg[i] => Len(X[i]) = vocab_size + 1
            /\ X[i] = SentinelRow(arg[i])
            /\ X[i][1] \in 0..(CategoryBuckets - 1)

\* record i of the call carries a description that is a string
HasDescription(i) == get(arg[i], "description", PyNone) # PyNone

\* the words of record i's description, lowercased
Tokens(i) == split(lower(arg[i].description.s))

\* the words of record i that are used
Used(i) == SubSeq(Tokens(i), 1, Min(Len(Tokens(i)), vocab_size))

\* the text slots of row i: its last vocab_size entries
TextSlots(i) == SubSeq(X[i], Len(X[i]) - vocab_size + 1, Len(X[i]))

(* C18: the 100 text slots of a record: the description is lowercased and  *)
(* split on whitespace, only the first 100 tokens are used, slot j holds   *)
(* hash(token j) mod 100 (a value in 0..99) for each used token, every     *)
(* slot after the last used token is 0, and tokens beyond the 100th never  *)
(* affect the vector.                                                      *)
C18_TextSlots ==
    EncReturned =>
        \A i \in 1..Len(X) :
            HasDescription(i) =>
                LET used == Used(i)
                    slots == TextSlots(i)
                IN /\ Len(slots) = vocab_size
                   /\ \A j \in 1..Len(used) :
                       /\ slots[j] = hash(hashseed, used[j]) % TokenBuckets
                       /\ slots[j] \in 0..(TokenBuckets - 1)
                   /\ \A j \in (Len(used) + 1)..vocab_size : slots[j] = 0
                   /\ \A k \in 1..Len(X) :
                       HasDescription(k) /\ Used(k) = used
                           => TextSlots(k) = slots

\* two descriptions of more than 100 words that differ after the 100th
\* have been encoded in one call
C18_Witness ==
    /\ EncReturned
    /\ Len(X) = 2
    /\ HasDescription(1)
    /\ HasDescription(2)
    /\ Len(Tokens(1)) > vocab_size
    /\ Tokens(1) # Tokens(2)
    /\ Used(1) = Used(2)
    /\ TextSlots(1) = TextSlots(2)
    /\ TextSlots(1)[vocab_size] # 0

\* record i of the call carries a system name that is a string
HasSystem(i) == get(arg[i], "systeme", PyNone) # PyNone

(* C19: the categorical slot is the hash of the lowercased form of the     *)
(* system name reduced modulo 1000, so two system names that differ only   *)
(* in letter case (such as "Hydraulic" and "hydraulic") always encode to   *)
(* the same slot value.                                                    *)
C19_CategoryCaseInsensitive ==
    EncReturned =>
        \A i \in 1..Len(X) :
            HasSystem(i) =>
                /\ X[i][1] = hash(hashseed, lower(arg[i].systeme.s))
                                 % CategoryBuckets
                /\ \A k \in 1..Len(X) :
                       /\ HasSystem(k)
                       /\ lower(arg[k].systeme.s) = lower(arg[i].systeme.s)
                       => X[k][1] = X[i][1]

-----------------------------------------------------------------------------
(* The HTTP handlers of main.py. The file processor and the database       *)
(* client are collaborators: each call to one of them is an input, either  *)
(* a value of the shape the handler tests or an exception.                 *)

\* an exception object
Exc(type, status_code, detail) ==
    [type |-> type, status_code |-> status_code, detail |-> detail]

HTTPException(status_code, detail) == Exc("HTTPException", status_code, detail)

NoExc == Exc("none", 0, "")

StatusText(n) ==
    IF n = 400 THEN "400" ELSE IF n = 404 THEN "404" ELSE "500"

\* str(e)
StrOfExc(e) ==
    IF e.type = "HTTPException"
    THEN StatusText(e.status_code) \o ": " \o e.detail
    ELSE e.detail

\* how a try body ends: by the exception e, or by a return when e is NoExc,
\* having called the collaborators in called
Outcome(e, called) == [exc |-> e, called |-> called]

\* what the client receives
Response(status, detail, called) ==
    [status |-> status, detail |-> detail, called |-> called]

\* str.endswith
endswith(s, suffix) ==
    /\ Len(s) >= Len(suffix)
    /\ SubSeq(s, Len(s) - Len(suffix) + 1, Len(s)) = suffix

\* the tail shared by the three prediction handlers: predict, store, answer
PredictAndStore(db, called) ==
    LET after == called \cup {"predictor", "database"}
    IN IF db = "raises" THEN Outcome(Exc("Exception", 0, "connection refused"), after)
       ELSE IF db = "none"
       THEN Outcome(HTTPException(500, "Failed to store anomalies in database"), after)
       ELSE Outcome(NoExc, after)

\* the try body of predict_batch_anomalies
BatchTry(req) ==
    IF Len(req.anomalies) = 0
    THEN Outcome(HTTPException(400, "No anomalies provided"), {})
    ELSE IF req.validate = "ValueError"
    THEN Outcome(Exc("ValueError", 0, "Missing required field"), {"file_processor"})
    ELSE PredictAndStore(req.db, {"file_processor"})

\* POST /predict/batch
predict_batch_anomalies(req) ==
    LET out == BatchTry(req)
    IN IF out.exc.type = "none" THEN Response(200, "", out.called)
       ELSE IF out.exc.type = "ValueError"
       THEN Response(400, StrOfExc(out.exc), out.called)
       ELSE Response(500, "Internal server error: " \o StrOfExc(out.exc), out.called)

\* the try body of the two file handlers
FileTry(req, suffixes, message) ==
    IF ~\E suffix \in suffixes : endswith(req.filename, suffix)
    THEN Outcome(HTTPException(400, message), {})
    ELSE IF req.process = "raises"
    THEN Outcome(Exc("Exception", 0, "cannot parse file"), {"file_processor"})
    ELSE IF req.process = "empty"
    THEN Outcome(HTTPException(400, "No valid anomaly data found in file"),
                 {"file_processor"})
    ELSE PredictAndStore(req.db, {"file_processor"})

\* POST /predict/file/csv
predict_from_csv_file(req) ==
    LET out == FileTry(req, {".csv"}, "File must be a CSV file")
    IN IF out.exc.type = "none" THEN Response(200, "", out.called)
       ELSE Response(500, "Error processing CSV file: " \o StrOfExc(out.exc),
                     out.called)

\* POST /predict/file/excel
predict_from_excel_file(req) ==
    LET out == FileTry(req, {".xlsx", ".xls"},
                       "File must be an Excel file (.xlsx or .xls)")
    IN IF out.exc.type = "none" THEN Response(200, "", out.called)
       ELSE Response(500, "Error processing Excel file: " \o StrOfExc(out.exc),
                     out.called)

\* the try body of get_anomaly
GetTry(req) ==
    IF req.db = "raises"
    THEN Outcome(Exc("Exception", 0, "connection refused"), {"database"})
    ELSE IF req.db = "none"
    THEN Outcome(HTTPException(404, "Anomaly not found"), {"database"})
    ELSE Outcome(NoExc, {"database"})

\* GET /anomalies/{anomaly_id}
get_anomaly(req) ==
    LET out == GetTry(req)
    IN IF out.exc.type = "none" THEN Response(200, "", out.called)
       ELSE Response(500, "Error fetching anomaly: " \o StrOfExc(out.exc),
                     out.called)

\* what the database client does when it is called
DbOutcomes == {"rows", "none", "raises"}

BatchRequests ==
    [anomalies : {<<>>, <<ConcRecords[1]>>, ConcRecords},
     validate : {"ok", "ValueError"},
     db : DbOutcomes]

FileRequests ==
    [filename : {"anomalies.csv", "anomalies.xlsx", "anomalies.xls", "notes.txt"},
     process : {"records", "empty", "raises"},
     db : DbOutcomes]

GetRequests == [anomaly_id : {"a1", "a2"}, db : DbOutcomes]

HttpInit ==
    /\ pc = "http_idle"
    /\ file = [state |-> "absent", content |-> PyNoneModel]
    /\ hashseed = 0
    /\ model = PyNoneModel
    /\ model_loaded = FALSE
    /\ op = "none"
    /\ arg = <<>>
    /\ result = NoResult

\* a request for predict_batch_anomalies arrives
ReceiveBatch ==
    /\ pc = "http_idle"
    /\ op' = "predict_batch_anomalies"
    /\ \E req \in BatchRequests : arg' = req
    /\ pc' = "http_handling"
    /\ UNCHANGED <<file, hashseed, model, model_loaded, result>>

\* a request for predict_from_csv_file arrives
ReceiveCsv ==
    /\ pc = "http_idle"
    /\ op' = "predict_from_csv_file"
    /\ \E req \in FileRequests : arg' = req
    /\ pc' = "http_handling"
    /\ UNCHANGED <<file, hashseed, model, model_loaded, result>>

\* a request for predict_from_excel_file arrives
ReceiveExcel ==
    /\ pc = "http_idle"
    /\ op' = "predict_from_excel_file"
    /\ \E req \in FileRequests : arg' = req
    /\ pc' = "http_handling"
    /\ UNCHANGED <<file, hashseed, model, model_loaded, result>>

\* a request for get_anomaly arrives
ReceiveGet ==
    /\ pc = "http_idle"
    /\ op' = "get_anomaly"
    /\ \E req \in GetRequests : arg' = req
    /\ pc' = "http_handling"
    /\ UNCHANGED <<file, hashseed, model, model_loaded, result>>

\* predict_batch_anomalies runs and the client gets the response
HandleBatch ==
    /\ pc = "http_handling"
    /\ op = "predict_batch_anomalies"
    /\ result' = predict_batch_anomalies(arg)
    /\ pc' = "http_responded"
    /\ UNCHANGED <<file, hashseed, model, model_loaded, op, arg>>

\* predict_from_csv_file runs and the client gets the response
HandleCsv ==
    /\ pc = "http_handling"
    /\ op = "predict_from_csv_file"
    /\ result' = predict_from_csv_file(arg)
    /\ pc' = "http_responded"
    /\ UNCHANGED <<file, hashseed, model, model_loaded, op, arg>>

\* predict_from_excel_file runs and the client gets the response
HandleExcel ==
    /\ pc = "http_handling"
    /\ op = "predict_from_excel_file"
    /\ result' = predict_from_excel_file(arg)
    /\ pc' = "http_responded"
    /\ UNCHANGED <<file, hashseed, model, model_loaded, op, arg>>

\* get_anomaly runs and the client gets the response
HandleGet ==
    /\ pc = "http_handling"
    /\ op = "get_anomaly"
    /\ result' = get_anomaly(arg)
    /\ pc' = "http_responded"
    /\ UNCHANGED <<file, hashseed, model, model_loaded, op, arg>>

\* the server is ready for the next request
HttpDone ==
    /\ pc = "http_responded"
    /\ pc' = "http_idle"
    /\ op' = "none"
    /\ arg' = <<>>
    /\ result' = NoResult
    /\ UNCHANGED <<file, hashseed, model, model_loaded>>

HttpNext ==
    \/ ReceiveBatch
    \/ ReceiveCsv
    \/ ReceiveExcel
    \/ ReceiveGet
    \/ HandleBatch
    \/ HandleCsv
    \/ HandleExcel
    \/ HandleGet
    \/ HttpDone

SpecHttp == HttpInit /\ [][HttpNext]_vars

\* handler has answered its request
Answered(handler) == pc = "http_responded" /\ op = handler

\* the uploaded file passed the name test and held no anomaly record
NoValidData(suffixes) ==
    /\ \E suffix \in suffixes : endswith(arg.filename, suffix)
    /\ arg.process = "empty"

(* C20: /predict/batch rejects an empty list of anomalies with status 400  *)
(* and detail "No anomalies provided", without calling the predictor or    *)
(* the database; likewise the 400 and 404 errors raised inside the other   *)
(* handlers' try blocks (non-CSV file name, non-Excel file name, no valid  *)
(* data in file, anomaly not found) reach the client with the status code  *)
(* they were raised with.                                                  *)
C20_RaisedStatusReachesClient ==
    /\ Answered("predict_batch_anomalies") /\ Len(arg.anomalies) = 0 =>
           /\ result.status = 400
           /\ result.detail = "No anomalies provided"
           /\ result.called \cap {"predictor", "database"} = {}
    /\ Answered("predict_from_csv_file") =>
           /\ ~endswith(arg.filename, ".csv") => result.status = 400
           /\ NoValidData({".csv"}) => result.status = 400
    /\ Answered("predict_from_excel_file") =>
           /\ ~\E suffix \in {".xlsx", ".xls"} : endswith(arg.filename, suffix)
                  => result.status = 400
           /\ NoValidData({".xlsx", ".xls"}) => result.status = 400
    /\ Answered("get_anomaly") /\ arg.db = "none" => result.status = 404

====
